---- MODULE Spec2Model ----
(***************************************************************************)
(* Transactional-outbox leaderboard (disfordave/leaderboard-go).           *)
(*                                                                         *)
(* Durable store (PostgreSQL, READ COMMITTED): tables score_events (the    *)
(* ledger, DL) and outbox (the queue, OQ).  Cache (Redis): one sorted set  *)
(* "lb:<season>" per season (the sorted index, SIC).                       *)
(*                                                                         *)
(* Committed table contents are the variables score_events and outbox.     *)
(* What an open transaction has written is kept with its process (sub,     *)
(* wk[w], pg) and becomes visible only at its commit; a rollback drops it. *)
(* Row locks are derived from the open transactions (LockedBy...).         *)
(***************************************************************************)
EXTENDS Integers, Sequences, FiniteSets, TLC

\* ---------------------------------------------------------------- bounds
\* Identifiers handed out by each IDENTITY sequence (rows ever inserted).
MaxRows == 2
\* Faults injected into drain cycles (aborted cycles + failed cache commands).
MaxFaults == 1

\* Rows ever inserted in the specification with injected rows.
PoisonRows == 3
\* Rows ever inserted in the specification with fairness.
LiveRows == 1
\* Rows ever inserted in the specification of the one-row worker.
OneRows == 2
\* Rows ever inserted in the specification with purges.
PurgeRows == 2
\* Rows ever inserted in the specification of the terminal states.
TerminalRows == 2
\* Rows ever inserted in the specification of reads next to writers.
AroundRows == 2
\* Rows ever inserted in the specification of the worker's footprint.
FrameRows == 2
\* Rows ever inserted in the specification of the worker loop.
LoopRows == 2
\* Highest score of an entry of the index the reads start from.
MaxScore == 2
\* Highest range parameter of an around request (the code allows 0..100).
MaxRange == 2
\* Submits accepted before the replay of the ledger.
ReplayRows == 2
\* Rows ever inserted in the specification of the order of application.
CommuteRows == 3
\* Rows ever inserted in the specification of the claim query.
ClaimRows == 4

\* const batchSize = 500 in processBatchOutbox; scaled down so that LIMIT
\* truncates within MaxRows.
batchSize == 3

Workers == {"w1", "w2"}

\* What submit requests carry: <<season, user, delta>>.
SubmitInputs == { <<"s1", "u1", 2>>, <<"s1", "u2", 1>>, <<"s2", "u1", -1>> }

Seasons == {"s1", "s2", ""}
NULL == "NULL"

\* ------------------------------------------------------------ JSON payload
\* A JSONB payload value.  json = "object": a JSON object with the keys
\* seasonId, userId (strings) and delta (a number); json = "array":
\* well-formed JSON that is not an object.
Payload(s, u, d) == [json |-> "object", seasonId |-> s, userId |-> u, delta |-> d]

\* Mutant: the payload is built without the request's delta.
Marshal_DropsDelta(seasonID, userID, delta) == Payload(seasonID, userID, 0)

\* json.Marshal(map[string]any{"seasonId":..., "userId":..., "delta":...})
Marshal(seasonID, userID, delta) == Payload(seasonID, userID, delta)

\* json.Unmarshal(item.Payload, &p) returns an error unless the value is an
\* object.
UnmarshalErr(payload) == payload.json # "object"

\* The struct p after a successful Unmarshal.
Unmarshal(payload) == [SeasonID |-> payload.seasonId, UserID |-> payload.userId, Delta |-> payload.delta]

\* payload->>'seasonId' (NULL when the payload is not an object).
PayloadSeason(payload) == IF payload.json = "object" THEN payload.seasonId ELSE NULL

\* Rows put into outbox from outside the submit path (an operator, a test):
\* a payload that does not decode, and an event type other than score_delta.
InjectRows ==
  { [event_type |-> "score_delta", payload |-> [json |-> "array", seasonId |-> "", userId |-> "", delta |-> 0]],
    [event_type |-> "badge", payload |-> Payload("s1", "u1", 2)] }

\* ------------------------------------------------------------------ state
VARIABLES
  score_events,   \* committed ledger rows: id -> [season_id, user_id, delta]
  outbox,         \* committed outbox rows: id -> [event_type, payload, status, attempts, last_error, processed]
  dlSeq,          \* last value of score_events' IDENTITY sequence
  oqSeq,          \* last value of outbox's IDENTITY sequence
  sic,            \* Redis: season -> sorted set (member -> score)
  sub,            \* the submit request in flight
  wk,             \* per drain worker: its open cycle
  pg,             \* the purge request in flight
  applied,        \* history: outbox id -> increments the cache has executed for it
  claims,         \* history: outbox id -> times a cycle has claimed it
  rolledBack,     \* history: ids inserted by submit transactions that rolled back
  faults,         \* history: faults injected so far
  rd,             \* the read request (rank, around) in flight
  rt              \* runtime of the process: the signal context, each worker's ticker channel

vars == <<score_events, outbox, dlSeq, oqSeq, sic, sub, wk, pg, applied, claims, rolledBack, faults, rd, rt>>

\* Every identifier a sequence can hand out under any of the bounds.
Ids == 1..(MaxRows + 4)

\* ---------------------------------------------------------------- float64
\* Scores are float64: float64(p.Delta) in the worker, doubles in Redis.  The
\* significand has 53 bits; scaled down to FloatBits here, so that integers
\* up to 2^FloatBits are exact and the next ones are 2 apart (as integers
\* above 2^53 are in float64).
FloatBits == 4

RECURSIVE Pow2(_)
Pow2(n) == IF n = 0 THEN 1 ELSE 2 * Pow2(n - 1)

RECURSIVE FloatStep(_, _)
\* The distance between neighbouring float values at magnitude a.
FloatStep(a, st) == IF a < Pow2(FloatBits) * st THEN st ELSE FloatStep(a, 2 * st)

\* Round to nearest multiple of st, ties to the even one.
RoundEven(a, st) ==
  LET q == a \div st
      r == a % st
  IN IF 2 * r < st THEN q * st
     ELSE IF 2 * r > st THEN (q + 1) * st
     ELSE IF q % 2 = 0 THEN q * st ELSE (q + 1) * st

\* float64(x): the nearest float64 of the integer x.
Float64(x) == IF x < 0 THEN 0 - RoundEven(0 - x, FloatStep(0 - x, 1)) ELSE RoundEven(x, FloatStep(x, 1))

\* ------------------------------------------------------------- sorted set
EmptyZ == [m \in {} |-> 0]

\* Mutant: ZADD (the score is overwritten) instead of ZINCRBY.
ZIncrBy_Overwrites(z, member, delta) ==
  [m \in DOMAIN z \cup {member} |-> IF m = member THEN delta ELSE z[m]]

\* ZINCRBY key delta member on one sorted set: a float64 addition.
ZIncrBy(z, member, delta) ==
  IF member \in DOMAIN z THEN [z EXCEPT ![member] = Float64(@ + delta)]
  ELSE [m \in DOMAIN z \cup {member} |-> IF m = member THEN delta ELSE z[m]]

\* ------------------------------------------------------------- helpers
Min(S) == CHOOSE x \in S : \A y \in S : x <= y

RECURSIVE SortedSeq(_)
SortedSeq(S) == IF S = {} THEN <<>> ELSE <<Min(S)>> \o SortedSeq(S \ {Min(S)})

\* Mutant: the query has no LIMIT.
Take_NoLimit(seq, n) == seq

Take(seq, n) == SubSeq(seq, 1, IF Len(seq) < n THEN Len(seq) ELSE n)

Range(seq) == {seq[i] : i \in 1..Len(seq)}

RECURSIVE SumOver(_, _)
\* Sum of f[x] over x in S.
SumOver(f, S) == IF S = {} THEN 0 ELSE LET x == CHOOSE y \in S : TRUE IN f[x] + SumOver(f, S \ {x})

\* ---------------------------------------------------------------- init
IdleSub == [pc |-> "idle", seasonID |-> "", userID |-> "", delta |-> 0, dl |-> 0, oq |-> 0]
IdleWk == [pc |-> "idle", items |-> <<>>, cmds |-> <<>>, res |-> <<>>, writes |-> <<>>]
\* No read request in flight.  z is the sorted set as ZRevRank saw it, zr
\* the sorted set as ZRevRangeWithScores saw it.
IdleRd == [pc |-> "idle", op |-> "", seasonID |-> "", userID |-> "", rng |-> 0, rank0 |-> 0, start |-> 0,
           status |-> 0, rank |-> 0, score |-> 0, items |-> <<>>, z |-> EmptyZ, zr |-> EmptyZ]
\* signal.NotifyContext: ctx not cancelled; time.NewTicker: nothing in ticker.C.
\* Every worker loop is at its select; burst counts the cycles a worker
\* started since its ticker last fired.  No replay of the ledger has been made.
InitRt == [ctx |-> "live", tick |-> [w \in Workers |-> 0], loop |-> [w \in Workers |-> "select"],
           burst |-> [w \in Workers |-> 0], replay |-> "no", before |-> [s \in Seasons |-> EmptyZ]]
IdlePg == [pc |-> "idle", sid |-> "", dl |-> {}, oq |-> {}, at |-> "", dl0 |-> 0, oq0 |-> 0, sub0 |-> "idle"]

Init ==
  /\ score_events = <<>>
  /\ outbox = <<>>
  /\ dlSeq = 0
  /\ oqSeq = 0
  /\ sic = [s \in Seasons |-> EmptyZ]
  /\ sub = IdleSub
  /\ wk = [w \in Workers |-> IdleWk]
  /\ pg = IdlePg
  /\ applied = [i \in Ids |-> 0]
  /\ claims = [i \in Ids |-> 0]
  /\ rolledBack = [dl |-> {}, oq |-> {}]
  /\ faults = 0
  /\ rd = IdleRd
  /\ rt = InitRt

\* ------------------------------------------------------- tables and locks
\* Mutant: the statement rewrites every row of the table.
AddRow_OverwritesAll(tbl, id, row) == [i \in DOMAIN tbl \cup {id} |-> row]

AddRow(tbl, id, row) == [i \in DOMAIN tbl \cup {id} |-> IF i = id THEN row ELSE tbl[i]]

DeleteRows(tbl, ids) == [i \in DOMAIN tbl \ ids |-> tbl[i]]

\* The table after a transaction's row versions are committed over it.
\* Mutant: an UPDATE without its WHERE clause marks the other rows done.
ApplyWrites_NoWhere(tbl, writes) ==
  [i \in DOMAIN tbl |-> IF i \in DOMAIN writes THEN writes[i] ELSE [tbl[i] EXCEPT !.status = "done"]]

ApplyWrites(tbl, writes) == [i \in DOMAIN tbl |-> IF i \in DOMAIN writes THEN writes[i] ELSE tbl[i]]

\* Row locks of outbox held by worker w's open transaction (FOR UPDATE).
LockedByWorker(w) == IF wk[w].pc = "idle" THEN {} ELSE Range(wk[w].items)

\* Row locks of outbox held by the purge transaction (its DELETE).
LockedByPurge == pg.oq

LockedByOthers(w) == UNION {LockedByWorker(v) : v \in Workers \ {w}} \cup LockedByPurge

\* ------------------------------------------------------------ submit path
\* The handler's checks of the path value and the decoded body: season and
\* user not empty, delta not zero.
Validate(in) == in[1] # "" /\ in[2] # "" /\ in[3] # 0

\* A request that fails a check: 400, before any transaction.
SubmitReject(in) ==
  /\ sub.pc = "idle"
  /\ ~Validate(in)
  /\ sub' = [IdleSub EXCEPT !.pc = "rejected", !.seasonID = in[1], !.userID = in[2], !.delta = in[3]]
  /\ UNCHANGED <<score_events, outbox, dlSeq, oqSeq, sic, wk, pg, applied, claims, rolledBack, faults, rd, rt>>

\* POST /v1/seasons/{sid}/scores: BeginTx.
SubmitBegin(in, maxRows) ==
  /\ sub.pc = "idle"
  /\ Validate(in)
  /\ dlSeq < maxRows /\ oqSeq < maxRows
  /\ sub' = [IdleSub EXCEPT !.pc = "tx", !.seasonID = in[1], !.userID = in[2], !.delta = in[3]]
  /\ UNCHANGED <<score_events, outbox, dlSeq, oqSeq, sic, wk, pg, applied, claims, rolledBack, faults, rd, rt>>

\* db.BeginTx fails: 500 "db begin failed".
SubmitBeginFail(in) ==
  /\ sub.pc = "idle"
  /\ Validate(in)
  /\ sub' = [IdleSub EXCEPT !.pc = "failed", !.seasonID = in[1], !.userID = in[2], !.delta = in[3]]
  /\ UNCHANGED <<score_events, outbox, dlSeq, oqSeq, sic, wk, pg, applied, claims, rolledBack, faults, rd, rt>>

\* The ledger row the handler inserts.
ScoreEventRow(seasonID, userID, delta) == [season_id |-> seasonID, user_id |-> userID, delta |-> delta]

\* The outbox row the handler inserts (attempts, last_error, processed_at by
\* the schema's defaults).
OutboxRow(seasonID, userID, delta) ==
  [event_type |-> "score_delta", payload |-> Marshal(seasonID, userID, delta),
   status |-> "pending", attempts |-> 0, last_error |-> NULL, processed |-> FALSE]

\* INSERT INTO score_events, inside the transaction.
SubmitInsertScoreEvent(maxRows) ==
  /\ sub.pc = "tx"
  /\ dlSeq < maxRows
  /\ dlSeq' = dlSeq + 1
  /\ sub' = [sub EXCEPT !.pc = "dl", !.dl = dlSeq + 1]
  /\ UNCHANGED <<score_events, outbox, oqSeq, sic, wk, pg, applied, claims, rolledBack, faults, rd, rt>>

\* INSERT INTO outbox, inside the same transaction.
SubmitInsertOutbox(maxRows) ==
  /\ sub.pc = "dl"
  /\ oqSeq < maxRows
  /\ oqSeq' = oqSeq + 1
  /\ sub' = [sub EXCEPT !.pc = "oq", !.oq = oqSeq + 1]
  /\ UNCHANGED <<score_events, outbox, dlSeq, sic, wk, pg, applied, claims, rolledBack, faults, rd, rt>>

\* What tx.Commit() makes visible: <<score_events, outbox>> after the commit.
SubmitCommitted(r) ==
  <<AddRow(score_events, r.dl, ScoreEventRow(r.seasonID, r.userID, r.delta)),
    AddRow(outbox, r.oq, OutboxRow(r.seasonID, r.userID, r.delta))>>

\* tx.Commit() succeeds; 202 {queued: true}.
SubmitCommit ==
  /\ sub.pc = "oq"
  /\ score_events' = SubmitCommitted(sub)[1]
  /\ outbox' = SubmitCommitted(sub)[2]
  /\ sub' = [sub EXCEPT !.pc = "acked"]
  /\ UNCHANGED <<dlSeq, oqSeq, sic, wk, pg, applied, claims, rolledBack, faults, rd, rt>>

\* Mutant: the ledger insert runs on db, outside the transaction, and
\* survives the rollback.
SubmitRolledBack_KeepsLedger(r) ==
  <<IF r.dl # 0 THEN AddRow(score_events, r.dl, ScoreEventRow(r.seasonID, r.userID, r.delta)) ELSE score_events,
    outbox>>

\* What a failed submit transaction leaves in the committed tables.
SubmitRolledBack(r) == <<score_events, outbox>>

\* An insert or the commit fails, or the 800 ms deadline expires: 500, and
\* the deferred tx.Rollback() drops what the transaction wrote.
SubmitFail ==
  /\ sub.pc \in {"tx", "dl", "oq"}
  /\ score_events' = SubmitRolledBack(sub)[1]
  /\ outbox' = SubmitRolledBack(sub)[2]
  /\ sub' = [sub EXCEPT !.pc = "failed"]
  /\ rolledBack' = [dl |-> rolledBack.dl \cup ({sub.dl} \ {0}), oq |-> rolledBack.oq \cup ({sub.oq} \ {0})]
  /\ UNCHANGED <<dlSeq, oqSeq, sic, wk, pg, applied, claims, faults, rd, rt>>

\* The handler returns.
SubmitReturn ==
  /\ sub.pc \in {"acked", "failed", "rejected"}
  /\ sub' = IdleSub
  /\ UNCHANGED <<score_events, outbox, dlSeq, oqSeq, sic, wk, pg, applied, claims, rolledBack, faults, rd, rt>>

\* The POST handler of src/main.go: the same handler without the check of
\* delta.
ValidateOne(in) == in[1] # "" /\ in[2] # ""

OneSubmitReject(in) ==
  /\ sub.pc = "idle"
  /\ ~ValidateOne(in)
  /\ sub' = [IdleSub EXCEPT !.pc = "rejected", !.seasonID = in[1], !.userID = in[2], !.delta = in[3]]
  /\ UNCHANGED <<score_events, outbox, dlSeq, oqSeq, sic, wk, pg, applied, claims, rolledBack, faults, rd, rt>>

OneSubmitBegin(in, maxRows) ==
  /\ sub.pc = "idle"
  /\ ValidateOne(in)
  /\ dlSeq < maxRows /\ oqSeq < maxRows
  /\ sub' = [IdleSub EXCEPT !.pc = "tx", !.seasonID = in[1], !.userID = in[2], !.delta = in[3]]
  /\ UNCHANGED <<score_events, outbox, dlSeq, oqSeq, sic, wk, pg, applied, claims, rolledBack, faults, rd, rt>>

OneSubmitBeginFail(in) ==
  /\ sub.pc = "idle"
  /\ ValidateOne(in)
  /\ sub' = [IdleSub EXCEPT !.pc = "failed", !.seasonID = in[1], !.userID = in[2], !.delta = in[3]]
  /\ UNCHANGED <<score_events, outbox, dlSeq, oqSeq, sic, wk, pg, applied, claims, rolledBack, faults, rd, rt>>

\* A row inserted into outbox from outside the submit path.
Inject(r, maxRows) ==
  /\ oqSeq < maxRows
  /\ oqSeq' = oqSeq + 1
  /\ outbox' = AddRow(outbox, oqSeq + 1,
        [event_type |-> r.event_type, payload |-> r.payload,
         status |-> "pending", attempts |-> 0, last_error |-> NULL, processed |-> FALSE])
  /\ UNCHANGED <<score_events, dlSeq, sic, sub, wk, pg, applied, claims, rolledBack, faults, rd, rt>>

\* ------------------------------------------------------------ drain worker
\* Mutant: FOR UPDATE without SKIP LOCKED waits for the pending rows that
\* other transactions have locked.
LockWait_ForUpdate(w) == {id \in DOMAIN outbox : outbox[id].status = "pending"} \cap LockedByOthers(w)

\* The rows whose lock the claim query waits for.  FOR UPDATE SKIP LOCKED:
\* none, a locked row is passed over.
LockWait(w) == {}

\* Mutant: the claim query lacks WHERE status='pending'.
ClaimQuery_AnyStatus(w) ==
  Take(SortedSeq({id \in DOMAIN outbox : id \notin LockedByOthers(w)}), batchSize)

\* Mutant: the claim query without FOR UPDATE SKIP LOCKED.
ClaimQuery_NoSkipLocked(w) ==
  Take(SortedSeq({id \in DOMAIN outbox : outbox[id].status = "pending"}), batchSize)

\* SELECT id, event_type, payload FROM outbox WHERE status='pending'
\* ORDER BY id FOR UPDATE SKIP LOCKED LIMIT batchSize: the ids, in order.
ClaimQuery(w) ==
  Take(SortedSeq({id \in DOMAIN outbox : outbox[id].status = "pending" /\ id \notin LockedByOthers(w)}), batchSize)

\* UPDATE outbox SET status='processing', attempts=attempts+1 WHERE id = ANY(ids):
\* the row versions the transaction holds after it.
MarkProcessing(items) ==
  [id \in Range(items) |-> [outbox[id] EXCEPT !.status = "processing", !.attempts = @ + 1]]

\* An item the decode loop does not turn into a cache command.
Poison(id) == UnmarshalErr(outbox[id].payload) \/ outbox[id].event_type # "score_delta"

\* Mutant: the decode loop lacks its 'failed' update.
MarkFailed_NoUpdate(writes, items) == writes

\* Mutant: the 'failed' update increments attempts again.
MarkFailed_IncrementsAttempts(writes, items) ==
  [id \in DOMAIN writes |->
     IF id \in Range(items) /\ Poison(id)
     THEN [writes[id] EXCEPT !.status = "failed", !.attempts = @ + 1,
             !.last_error = IF UnmarshalErr(outbox[id].payload) THEN "json error" ELSE "unknown event_type"]
     ELSE writes[id]]

\* The decode loop's UPDATE ... SET status='failed', last_error=$2 WHERE id=$1.
MarkFailed(writes, items) ==
  [id \in DOMAIN writes |->
     IF id \in Range(items) /\ Poison(id)
     THEN [writes[id] EXCEPT !.status = "failed",
             !.last_error = IF UnmarshalErr(outbox[id].payload) THEN "json error" ELSE "unknown event_type"]
     ELSE writes[id]]

\* Mutant: the decode loop lacks its "continue": every item is queued.
QueuedCmds_NoContinue(items) == items

\* The commands queued on the pipeline, in item order: one ZIncrBy per
\* decodable score_delta item.
QueuedCmds(items) == SelectSeq(items, LAMBDA id : ~Poison(id))

\* Mutant: the worker runs on context.Background().
CtxDone_Background == FALSE

\* ctx.Done() is closed: the signal has arrived.  Every context derived from
\* ctx (the 5 s context of a cycle) is cancelled with it.
CtxDone == rt.ctx = "cancelled"

\* One cycle up to the pipeline: BeginTx (which fails on a cancelled
\* context), the claim query, the processing update and the decode loop.
\* Nothing of it is visible to other transactions except the row locks.
ClaimTx(w) ==
  /\ wk[w].pc = "idle"
  /\ ~CtxDone
  /\ LockWait(w) = {}
  /\ LET items == ClaimQuery(w) IN
       /\ items # <<>>
       /\ wk' = [wk EXCEPT ![w] = [pc |-> "pipe", items |-> items, cmds |-> QueuedCmds(items),
                                   res |-> <<>>, writes |-> MarkFailed(MarkProcessing(items), items)]]
       /\ claims' = [id \in Ids |-> IF id \in Range(items) THEN claims[id] + 1 ELSE claims[id]]
  /\ UNCHANGED <<score_events, outbox, dlSeq, oqSeq, sic, sub, pg, applied, rolledBack, faults, rd>>

\* A cycle that claims rows, the tick that started it left aside.
ClaimBatch(w) ==
  /\ ClaimTx(w)
  /\ UNCHANGED rt

\* len(items) == 0: return nil; the deferred Rollback ends the transaction.
ClaimNothing(w) ==
  /\ wk[w].pc = "idle"
  /\ ~CtxDone
  /\ LockWait(w) = {}
  /\ ClaimQuery(w) = <<>>
  /\ UNCHANGED vars

\* The server executes the next queued ZINCRBY lb:<season> delta user.
PipeCmdOk(w) ==
  /\ wk[w].pc = "pipe"
  /\ Len(wk[w].res) < Len(wk[w].cmds)
  /\ LET id == wk[w].cmds[Len(wk[w].res) + 1]
         p == Unmarshal(outbox[id].payload)
     IN /\ sic' = [sic EXCEPT ![p.SeasonID] = ZIncrBy(@, p.UserID, Float64(p.Delta))]
        /\ applied' = [applied EXCEPT ![id] = @ + 1]
  /\ wk' = [wk EXCEPT ![w].res = Append(@, "ok")]
  /\ UNCHANGED <<score_events, outbox, dlSeq, oqSeq, sub, pg, claims, rolledBack, faults, rd, rt>>

\* The server answers the next queued command with an error: no effect.
PipeCmdErr(w, maxFaults) ==
  /\ wk[w].pc = "pipe"
  /\ Len(wk[w].res) < Len(wk[w].cmds)
  /\ faults < maxFaults
  /\ faults' = faults + 1
  /\ wk' = [wk EXCEPT ![w].res = Append(@, "err")]
  /\ UNCHANGED <<score_events, outbox, dlSeq, oqSeq, sic, sub, pg, applied, claims, rolledBack, rd, rt>>

\* pipe.Exec's error: that of the first failed command, nil when none failed
\* (go-redis: "Exec always returns list of commands and error of the first
\* failed command if any").
ExecErr(res) == \E i \in 1..Len(res) : res[i] = "err"

\* The loop over cmds: x.cmd.Err() == nil.
OkIDs(cmds, res) == {cmds[i] : i \in {j \in 1..Len(cmds) : res[j] = "ok"}}

\* The loop over cmds: x.cmd.Err() != nil.
FailIDs(cmds, res) == {cmds[i] : i \in {j \in 1..Len(cmds) : res[j] = "err"}}

\* Mutant: the bulk updates are left out; rows are committed as processing.
Finalize_NoUpdates(writes, cmds, res) == writes

\* Mutant: the done update runs over ids (every claimed row), not okIDs.
Finalize_AllClaimedDone(writes, cmds, res) ==
  [id \in DOMAIN writes |-> [writes[id] EXCEPT !.status = "done", !.processed = TRUE, !.last_error = NULL]]

\* The two bulk updates after the pipeline: okIDs to done, failIDs back to
\* pending with last_error.
Finalize(writes, cmds, res) ==
  [id \in DOMAIN writes |->
     IF id \in OkIDs(cmds, res)
     THEN [writes[id] EXCEPT !.status = "done", !.processed = TRUE, !.last_error = NULL]
     ELSE IF id \in FailIDs(cmds, res)
     THEN [writes[id] EXCEPT !.status = "pending", !.last_error = "redis cmd error"]
     ELSE writes[id]]

\* pipe.Exec returned nil: the bulk updates, then tx.Commit(); both return
\* an error on a cancelled context.
FinalizeCommit(w) ==
  /\ wk[w].pc = "pipe"
  /\ ~CtxDone
  /\ Len(wk[w].res) = Len(wk[w].cmds)
  /\ ~ExecErr(wk[w].res)
  /\ outbox' = ApplyWrites(outbox, Finalize(wk[w].writes, wk[w].cmds, wk[w].res))
  /\ wk' = [wk EXCEPT ![w] = IdleWk]
  /\ UNCHANGED <<score_events, dlSeq, oqSeq, sic, sub, pg, applied, claims, rolledBack, faults, rd, rt>>

\* Mutant: the updates ran on db, outside the transaction, and survive.
Rollback_KeepsWrites(w) == ApplyWrites(outbox, wk[w].writes)

\* The committed outbox after a cycle's transaction rolls back.
Rollback(w) == outbox

\* pipe.Exec returned an error: return "redis pipeline failed"; the deferred
\* tx.Rollback() runs.
PipelineFailed(w) ==
  /\ wk[w].pc = "pipe"
  /\ Len(wk[w].res) = Len(wk[w].cmds)
  /\ ExecErr(wk[w].res)
  /\ outbox' = Rollback(w)
  /\ wk' = [wk EXCEPT ![w] = IdleWk]
  /\ UNCHANGED <<score_events, dlSeq, oqSeq, sic, sub, pg, applied, claims, rolledBack, faults, rd, rt>>

\* Any other end of a cycle without commit after the claim: an update or
\* the commit fails (also after an ignored failure of a 'failed' update
\* left the transaction aborted), the 5 s deadline expires, the context is
\* cancelled, or the process is killed.  The transaction rolls back.
Abort(w, maxFaults) ==
  /\ wk[w].pc = "pipe"
  /\ faults < maxFaults
  /\ faults' = faults + 1
  /\ outbox' = Rollback(w)
  /\ wk' = [wk EXCEPT ![w] = IdleWk]
  /\ UNCHANGED <<score_events, dlSeq, oqSeq, sic, sub, pg, applied, claims, rolledBack, rd, rt>>

\* ------------------------------------------------------------ worker loop
\* Buffer of ticker.C (time.NewTicker): one tick; ticks that find it full
\* are dropped.
TickerBuffer == 1

\* Mutant: ticks queue up while a cycle runs.
TickerFire_Queues(w) ==
  /\ rt.loop[w] # "exited"
  /\ rt.tick[w] < 3
  /\ rt' = [rt EXCEPT !.tick[w] = @ + 1, !.burst[w] = 0]
  /\ UNCHANGED <<score_events, outbox, dlSeq, oqSeq, sic, sub, wk, pg, applied, claims, rolledBack, faults, rd>>

\* The 50 ms interval of the worker's ticker elapses.
TickerFire(w) ==
  /\ rt.loop[w] # "exited"
  /\ rt' = [rt EXCEPT !.tick[w] = IF @ < TickerBuffer THEN @ + 1 ELSE @, !.burst[w] = 0]
  /\ UNCHANGED <<score_events, outbox, dlSeq, oqSeq, sic, sub, wk, pg, applied, claims, rolledBack, faults, rd>>

\* signal.NotifyContext: SIGINT or SIGTERM cancels ctx.
Signal ==
  /\ rt.ctx = "live"
  /\ rt' = [rt EXCEPT !.ctx = "cancelled"]
  /\ UNCHANGED <<score_events, outbox, dlSeq, oqSeq, sic, sub, wk, pg, applied, claims, rolledBack, faults, rd>>

\* The select takes the tick and processBatchOutbox claims rows: the loop
\* is inside the call until it returns.
TickClaimBatch(w) ==
  /\ rt.loop[w] = "select"
  /\ rt.tick[w] > 0
  /\ ClaimTx(w)
  /\ rt' = [rt EXCEPT !.tick[w] = @ - 1, !.loop[w] = "cycle", !.burst[w] = @ + 1]

\* The select takes the tick and processBatchOutbox returns at once: it
\* finds no row, or (the select may take the tick although ctx.Done() is
\* ready too) BeginTx fails on the cancelled context.
TickClaimNothing(w) ==
  /\ rt.loop[w] = "select"
  /\ rt.tick[w] > 0
  /\ wk[w].pc = "idle"
  /\ CtxDone \/ (LockWait(w) = {} /\ ClaimQuery(w) = <<>>)
  /\ rt' = [rt EXCEPT !.tick[w] = @ - 1, !.burst[w] = @ + 1]
  /\ UNCHANGED <<score_events, outbox, dlSeq, oqSeq, sic, sub, wk, pg, applied, claims, rolledBack, faults, rd>>

\* The context is cancelled while a cycle is between its claim and its
\* commit: the next statement on the transaction (or the commit) returns
\* the context's error and the transaction rolls back.
CancelledAbort(w) ==
  /\ wk[w].pc = "pipe"
  /\ CtxDone
  /\ outbox' = Rollback(w)
  /\ wk' = [wk EXCEPT ![w] = IdleWk]
  /\ UNCHANGED <<score_events, dlSeq, oqSeq, sic, sub, pg, applied, claims, rolledBack, faults, rd, rt>>

\* processBatchOutbox has returned: the loop is at its select again.
LoopReturn(w) ==
  /\ rt.loop[w] = "cycle"
  /\ wk[w].pc = "idle"
  /\ rt' = [rt EXCEPT !.loop[w] = "select"]
  /\ UNCHANGED <<score_events, outbox, dlSeq, oqSeq, sic, sub, wk, pg, applied, claims, rolledBack, faults, rd>>

\* case <-ctx.Done(): return.
LoopExit(w) ==
  /\ rt.loop[w] = "select"
  /\ CtxDone
  /\ rt' = [rt EXCEPT !.loop[w] = "exited"]
  /\ UNCHANGED <<score_events, outbox, dlSeq, oqSeq, sic, sub, wk, pg, applied, claims, rolledBack, faults, rd>>

\* ------------------------------------------- drain worker, one row a cycle
\* processOneOutbox (src/main.go): the worker that claims one row per tick.
\* Its claim query: the same SELECT with LIMIT 1.
ClaimQueryOne(w) ==
  Take(SortedSeq({id \in DOMAIN outbox : outbox[id].status = "pending" /\ id \notin LockedByOthers(w)}), 1)

\* BeginTx, the claim query and the processing update.
OneClaim(w) ==
  /\ wk[w].pc = "idle"
  /\ LockWait(w) = {}
  /\ LET items == ClaimQueryOne(w) IN
       /\ items # <<>>
       /\ wk' = [wk EXCEPT ![w] = [pc |-> "one", items |-> items, cmds |-> <<>>,
                                   res |-> <<>>, writes |-> MarkProcessing(items)]]
       /\ claims' = [id \in Ids |-> IF id \in Range(items) THEN claims[id] + 1 ELSE claims[id]]
  /\ UNCHANGED <<score_events, outbox, dlSeq, oqSeq, sic, sub, pg, applied, rolledBack, faults, rd, rt>>

\* sql.ErrNoRows: return nil.
OneClaimNothing(w) ==
  /\ wk[w].pc = "idle"
  /\ LockWait(w) = {}
  /\ ClaimQueryOne(w) = <<>>
  /\ UNCHANGED vars

\* json.Unmarshal fails: the row is set to failed and the cycle commits.
OneBadPayload(w) ==
  /\ wk[w].pc = "one"
  /\ LET id == wk[w].items[1] IN
       /\ UnmarshalErr(outbox[id].payload)
       /\ outbox' = ApplyWrites(outbox,
             [i \in {id} |-> [wk[w].writes[id] EXCEPT !.status = "failed", !.last_error = "bad payload"]])
  /\ wk' = [wk EXCEPT ![w] = IdleWk]
  /\ UNCHANGED <<score_events, dlSeq, oqSeq, sic, sub, pg, applied, claims, rolledBack, faults, rd, rt>>

\* eventType == "score_delta": rdb.ZIncrBy succeeds.
OneIncr(w) ==
  /\ wk[w].pc = "one"
  /\ LET id == wk[w].items[1] IN
       /\ ~UnmarshalErr(outbox[id].payload)
       /\ outbox[id].event_type = "score_delta"
       /\ LET p == Unmarshal(outbox[id].payload) IN
            sic' = [sic EXCEPT ![p.SeasonID] = ZIncrBy(@, p.UserID, Float64(p.Delta))]
       /\ applied' = [applied EXCEPT ![id] = @ + 1]
       /\ wk' = [wk EXCEPT ![w].pc = "incr", ![w].cmds = <<id>>, ![w].res = <<"ok">>]
  /\ UNCHANGED <<score_events, outbox, dlSeq, oqSeq, sub, pg, claims, rolledBack, faults, rd, rt>>

\* eventType == "score_delta": rdb.ZIncrBy fails; the row goes back to
\* pending with last_error and the cycle commits.
OneIncrErr(w, maxFaults) ==
  /\ wk[w].pc = "one"
  /\ faults < maxFaults
  /\ LET id == wk[w].items[1] IN
       /\ ~UnmarshalErr(outbox[id].payload)
       /\ outbox[id].event_type = "score_delta"
       /\ outbox' = ApplyWrites(outbox,
             [i \in {id} |-> [wk[w].writes[id] EXCEPT !.status = "pending", !.last_error = "redis"]])
  /\ faults' = faults + 1
  /\ wk' = [wk EXCEPT ![w] = IdleWk]
  /\ UNCHANGED <<score_events, dlSeq, oqSeq, sic, sub, pg, applied, claims, rolledBack, rd, rt>>

\* The row after the final UPDATE ... SET status='done'.
OneDoneRow(row) == [row EXCEPT !.status = "done", !.processed = TRUE, !.last_error = NULL]

\* The done update and tx.Commit(): after the increment, and also for a
\* decodable row whose event type is not score_delta (the "if" is skipped).
OneDone(w) ==
  /\ \/ wk[w].pc = "incr"
     \/ /\ wk[w].pc = "one"
        /\ ~UnmarshalErr(outbox[wk[w].items[1]].payload)
        /\ outbox[wk[w].items[1]].event_type # "score_delta"
  /\ LET id == wk[w].items[1] IN
       outbox' = ApplyWrites(outbox, [i \in {id} |-> OneDoneRow(wk[w].writes[id])])
  /\ wk' = [wk EXCEPT ![w] = IdleWk]
  /\ UNCHANGED <<score_events, dlSeq, oqSeq, sic, sub, pg, applied, claims, rolledBack, faults, rd, rt>>

\* The cycle ends without commit (an update or the commit fails, the 800 ms
\* deadline expires, the process is killed): rollback.
OneAbort(w, maxFaults) ==
  /\ wk[w].pc \in {"one", "incr"}
  /\ faults < maxFaults
  /\ faults' = faults + 1
  /\ outbox' = Rollback(w)
  /\ wk' = [wk EXCEPT ![w] = IdleWk]
  /\ UNCHANGED <<score_events, dlSeq, oqSeq, sic, sub, pg, applied, claims, rolledBack, rd, rt>>

\* ------------------------------------------------------------------ purge
\* rdb.Del(lb:<sid>) fails: 500 "redis error", before any transaction.
PurgeDelFail(sid) ==
  /\ pg.pc \in {"idle", "done", "failed"}
  /\ pg' = [IdlePg EXCEPT !.pc = "failed", !.sid = sid, !.at = "del"]
  /\ UNCHANGED <<score_events, outbox, dlSeq, oqSeq, sic, sub, wk, applied, claims, rolledBack, faults, rd, rt>>

\* DELETE /v1/seasons/{sid}: rdb.Del(lb:<sid>), then BeginTx.  dl0, oq0 and
\* sub0 remember the sequences and the submit in flight at this moment.
PurgeBegin(sid) ==
  /\ pg.pc \in {"idle", "done", "failed"}
  /\ sic' = [sic EXCEPT ![sid] = EmptyZ]
  /\ pg' = [IdlePg EXCEPT !.pc = "tx", !.sid = sid, !.dl0 = dlSeq, !.oq0 = oqSeq, !.sub0 = sub.pc]
  /\ UNCHANGED <<score_events, outbox, dlSeq, oqSeq, sub, wk, applied, claims, rolledBack, faults, rd, rt>>

\* DELETE FROM score_events WHERE season_id=$1 (the statement's snapshot).
PurgeDeleteScoreEvents ==
  /\ pg.pc = "tx"
  /\ pg' = [pg EXCEPT !.pc = "dl", !.dl = {id \in DOMAIN score_events : score_events[id].season_id = pg.sid}]
  /\ UNCHANGED <<score_events, outbox, dlSeq, oqSeq, sic, sub, wk, applied, claims, rolledBack, faults, rd, rt>>

\* DELETE FROM outbox WHERE payload->>'seasonId'=$1 (a new snapshot: READ
\* COMMITTED).  The statement waits for rows a drain cycle has locked; it
\* completes once none is locked.
PurgeDeleteOutbox ==
  /\ pg.pc = "dl"
  /\ LET hit == {id \in DOMAIN outbox : PayloadSeason(outbox[id].payload) = pg.sid} IN
       /\ hit \cap UNION {LockedByWorker(w) : w \in Workers} = {}
       /\ pg' = [pg EXCEPT !.pc = "oq", !.oq = hit]
  /\ UNCHANGED <<score_events, outbox, dlSeq, oqSeq, sic, sub, wk, applied, claims, rolledBack, faults, rd, rt>>

\* What the purge's tx.Commit() leaves: <<score_events, outbox>>.
PurgeCommitted(p) == <<DeleteRows(score_events, p.dl), DeleteRows(outbox, p.oq)>>

\* tx.Commit() of the purge; 200 {deleted: true}.
PurgeCommit ==
  /\ pg.pc = "oq"
  /\ score_events' = PurgeCommitted(pg)[1]
  /\ outbox' = PurgeCommitted(pg)[2]
  /\ pg' = [pg EXCEPT !.pc = "done", !.dl = {}, !.oq = {}]
  /\ UNCHANGED <<dlSeq, oqSeq, sic, sub, wk, applied, claims, rolledBack, faults, rd, rt>>

\* What a failed purge transaction leaves: <<score_events, outbox>>.
PurgeRolledBack(p) == <<score_events, outbox>>

\* BeginTx, a statement or the commit of the purge fails, or its 800 ms
\* deadline expires: 500, rollback.  The cache key stays deleted.
PurgeFail ==
  /\ pg.pc \in {"tx", "dl", "oq"}
  /\ score_events' = PurgeRolledBack(pg)[1]
  /\ outbox' = PurgeRolledBack(pg)[2]
  /\ pg' = [pg EXCEPT !.pc = "failed", !.at = "tx", !.dl = {}, !.oq = {}]
  /\ UNCHANGED <<dlSeq, oqSeq, sic, sub, wk, applied, claims, rolledBack, faults, rd, rt>>

\* ------------------------------------------------------------------- reads
\* GET .../leaderboard/rank: ZRevRank answers redis.Nil (404) when the user
\* has no entry in the season's sorted set, else 200.
RankStatus(seasonID, userID) == IF userID \in DOMAIN sic[seasonID] THEN 200 ELSE 404

\* The byte order of the member strings, by which Redis orders equal scores.
MemberOrd(m) == CASE m = "u1" -> 1 [] m = "u2" -> 2 [] m = "u3" -> 3 [] OTHER -> 0

\* The order of a sorted set: by score, then by member.
ZLess(z, a, b) == z[a] < z[b] \/ (z[a] = z[b] /\ MemberOrd(a) < MemberOrd(b))

RECURSIVE ZRange(_)
\* The members of a sorted set from the lowest to the highest.
ZRange(z) ==
  IF DOMAIN z = {} THEN <<>>
  ELSE LET lo == CHOOSE a \in DOMAIN z : \A b \in DOMAIN z \ {a} : ZLess(z, a, b)
       IN <<lo>> \o ZRange([m \in DOMAIN z \ {lo} |-> z[m]])

\* ZRANK: the 0-based position from the lowest.
ZRank(z, member) == (CHOOSE i \in 1..Len(ZRange(z)) : ZRange(z)[i] = member) - 1

\* Mutant: the rank is counted from the lowest score.
ZRevRank_Ascending(z, member) == ZRank(z, member)

\* ZREVRANK: the 0-based position from the highest.
ZRevRank(z, member) == Cardinality(DOMAIN z) - 1 - ZRank(z, member)

\* ZREVRANGE key start stop WITHSCORES: negative indexes count from the end,
\* stop is clipped to the last element, an empty reply when start is past
\* the end or past stop.
ZRevRangeWithScores(z, start, stop) ==
  LET n == Cardinality(DOMAIN z)
      asc == ZRange(z)
      st0 == IF start < 0 THEN start + n ELSE start
      sp0 == IF stop < 0 THEN stop + n ELSE stop
      st == IF st0 < 0 THEN 0 ELSE st0
      sp == IF sp0 >= n THEN n - 1 ELSE sp0
  IN IF st > sp \/ st >= n THEN <<>>
     ELSE [i \in 1..(sp - st + 1) |-> [Member |-> asc[n - (st + i - 1)], Score |-> z[asc[n - (st + i - 1)]]]]

\* GET .../leaderboard/rank?userId=: the two parameters are checked.
RankBegin(seasonID, userID) ==
  /\ rd.pc = "idle"
  /\ rd' = IF seasonID = "" \/ userID = ""
           THEN [IdleRd EXCEPT !.pc = "responded", !.op = "rank", !.seasonID = seasonID, !.userID = userID, !.status = 400]
           ELSE [IdleRd EXCEPT !.pc = "zrevrank", !.op = "rank", !.seasonID = seasonID, !.userID = userID]
  /\ UNCHANGED <<score_events, outbox, dlSeq, oqSeq, sic, sub, wk, pg, applied, claims, rolledBack, faults, rt>>

\* The default range and the bounds of the parameter.
DefaultRange == 5
RangeLimit == 100

\* GET .../leaderboard/around?userId=&range=: range is optional (given says
\* whether it is there) and must be in 0..100.
AroundBegin(seasonID, userID, given, parsed) ==
  /\ rd.pc = "idle"
  /\ rd' = IF seasonID = "" \/ userID = "" \/ (given /\ (parsed < 0 \/ parsed > RangeLimit))
           THEN [IdleRd EXCEPT !.pc = "responded", !.op = "around", !.seasonID = seasonID, !.userID = userID, !.status = 400]
           ELSE [IdleRd EXCEPT !.pc = "zrevrank", !.op = "around", !.seasonID = seasonID, !.userID = userID,
                               !.rng = IF given THEN parsed ELSE DefaultRange]
  /\ UNCHANGED <<score_events, outbox, dlSeq, oqSeq, sic, sub, wk, pg, applied, claims, rolledBack, faults, rt>>

\* Mutant: the start of the window is not clipped.
AroundStart_NoClip(myRank0, rng) == myRank0 - rng

\* start := myRank0 - rng; if start < 0 { start = 0 }.
AroundStart(myRank0, rng) == IF myRank0 - rng < 0 THEN 0 ELSE myRank0 - rng

\* rdb.ZRevRank in both handlers: redis.Nil (no entry) is answered 404.
ReadZRevRank ==
  /\ rd.pc = "zrevrank"
  /\ rd' = IF rd.userID \notin DOMAIN sic[rd.seasonID]
           THEN [rd EXCEPT !.pc = "responded", !.status = 404, !.z = sic[rd.seasonID]]
           ELSE LET rank0 == ZRevRank(sic[rd.seasonID], rd.userID)
                IN [rd EXCEPT !.pc = IF rd.op = "rank" THEN "zscore" ELSE "zrange",
                              !.rank0 = rank0,
                              !.start = IF rd.op = "rank" THEN 0 ELSE AroundStart(rank0, rd.rng),
                              !.z = sic[rd.seasonID]]
  /\ UNCHANGED <<score_events, outbox, dlSeq, oqSeq, sic, sub, wk, pg, applied, claims, rolledBack, faults, rt>>

\* rdb.ZScore, then the answer with Rank: rank0 + 1.
RankZScore ==
  /\ rd.pc = "zscore"
  /\ rd' = IF rd.userID \notin DOMAIN sic[rd.seasonID]
           THEN [rd EXCEPT !.pc = "responded", !.status = 404]
           ELSE [rd EXCEPT !.pc = "responded", !.status = 200, !.rank = rd.rank0 + 1,
                           !.score = sic[rd.seasonID][rd.userID]]
  /\ UNCHANGED <<score_events, outbox, dlSeq, oqSeq, sic, sub, wk, pg, applied, claims, rolledBack, faults, rt>>

\* rdb.ZRevRangeWithScores(start, end), then the items with
\* Rank: (start + i) + 1 for the i-th (from 0) element of the reply.
AroundZRange ==
  /\ rd.pc = "zrange"
  /\ LET zs == ZRevRangeWithScores(sic[rd.seasonID], rd.start, rd.rank0 + rd.rng)
     IN rd' = [rd EXCEPT !.pc = "responded", !.status = 200, !.zr = sic[rd.seasonID],
                         !.items = [i \in 1..Len(zs) |->
                                      [Rank |-> (rd.start + (i - 1)) + 1, UserID |-> zs[i].Member, Score |-> zs[i].Score]]]
  /\ UNCHANGED <<score_events, outbox, dlSeq, oqSeq, sic, sub, wk, pg, applied, claims, rolledBack, faults, rt>>

\* A Redis call of a read handler returns an error (or times out): 500.
ReadRedisErr ==
  /\ rd.pc \in {"zrevrank", "zscore", "zrange"}
  /\ rd' = [rd EXCEPT !.pc = "responded", !.status = 500]
  /\ UNCHANGED <<score_events, outbox, dlSeq, oqSeq, sic, sub, wk, pg, applied, claims, rolledBack, faults, rt>>

\* The handler returns.
ReadReturn ==
  /\ rd.pc = "responded"
  /\ rd' = IdleRd
  /\ UNCHANGED <<score_events, outbox, dlSeq, oqSeq, sic, sub, wk, pg, applied, claims, rolledBack, faults, rt>>

\* ------------------------------------------------------------------- next
\* The parameters are the bounds of the specification that uses the action.
SubmitNext(inputs, maxRows) ==
  \/ \E in \in inputs : SubmitBegin(in, maxRows)
  \/ \E in \in inputs : SubmitBeginFail(in)
  \/ SubmitInsertScoreEvent(maxRows)
  \/ SubmitInsertOutbox(maxRows)
  \/ SubmitCommit
  \/ SubmitFail
  \/ SubmitReturn

\* The handler with requests that fail its checks among the inputs.
SubmitCheckedNext(inputs, maxRows) ==
  \/ \E in \in inputs : SubmitReject(in)
  \/ SubmitNext(inputs, maxRows)

OneSubmitNext(inputs, maxRows) ==
  \/ \E in \in inputs : OneSubmitReject(in)
  \/ \E in \in inputs : OneSubmitBegin(in, maxRows)
  \/ \E in \in inputs : OneSubmitBeginFail(in)
  \/ SubmitInsertScoreEvent(maxRows)
  \/ SubmitInsertOutbox(maxRows)
  \/ SubmitCommit
  \/ SubmitFail
  \/ SubmitReturn

WorkerNext(workers, maxFaults) ==
  \E w \in workers :
    \/ ClaimBatch(w)
    \/ ClaimNothing(w)
    \/ PipeCmdOk(w)
    \/ PipeCmdErr(w, maxFaults)
    \/ FinalizeCommit(w)
    \/ PipelineFailed(w)
    \/ Abort(w, maxFaults)

PurgeNext(seasons) ==
  \/ \E sid \in seasons : PurgeDelFail(sid)
  \/ \E sid \in seasons : PurgeBegin(sid)
  \/ PurgeDeleteScoreEvents
  \/ PurgeDeleteOutbox
  \/ PurgeCommit
  \/ PurgeFail

InjectNext(rows, maxRows) == \E r \in rows : Inject(r, maxRows)

\* Submits and drain cycles of two workers.
Next == SubmitNext(SubmitInputs, MaxRows) \/ WorkerNext(Workers, MaxFaults)

Spec == Init /\ [][Next]_vars

\* Submits, injected rows and the drain cycles of one worker.
PoisonInputs == { <<"s1", "u1", 2>> }

\* Requests with an empty season, an empty user and a zero delta among them.
CheckedInputs == { <<"s1", "u1", 2>>, <<"s1", "u1", 0>>, <<"s1", "", 1>>, <<"", "u1", 1>> }

NextPoison ==
  \/ SubmitNext(PoisonInputs, PoisonRows)
  \/ InjectNext(InjectRows, PoisonRows)
  \/ WorkerNext({"w1"}, MaxFaults)

SpecPoison == Init /\ [][NextPoison]_vars

\* What a worker does on its own once its tick fires: the steps of a cycle.
CycleStep(w) ==
  \/ ClaimBatch(w)
  \/ PipeCmdOk(w)
  \/ PipeCmdErr(w, MaxFaults)
  \/ FinalizeCommit(w)
  \/ PipelineFailed(w)

NextLive ==
  \/ SubmitNext(PoisonInputs, LiveRows)
  \/ InjectNext(InjectRows, LiveRows)
  \/ WorkerNext(Workers, MaxFaults)

\* The ticker keeps firing and every call of a cycle returns: a worker that
\* can take a step of its cycle eventually takes one.  Faults (Abort,
\* PipeCmdErr) stop after MaxFaults: store and cache are eventually available.
SpecLive == Init /\ [][NextLive]_vars /\ \A w \in Workers : WF_vars(CycleStep(w))

OneWorkerNext(workers, maxFaults) ==
  \E w \in workers :
    \/ OneClaim(w)
    \/ OneClaimNothing(w)
    \/ OneBadPayload(w)
    \/ OneIncr(w)
    \/ OneIncrErr(w, maxFaults)
    \/ OneDone(w)
    \/ OneAbort(w, maxFaults)

\* Submits, injected rows and the one-row drain cycles of two workers.
NextOne ==
  \/ OneSubmitNext(CheckedInputs, OneRows)
  \/ InjectNext(InjectRows, OneRows)
  \/ OneWorkerNext(Workers, MaxFaults)

SpecOne == Init /\ [][NextOne]_vars

\* Checked submits and the drain cycles of one worker.
NextChecked ==
  \/ SubmitCheckedNext(CheckedInputs, OneRows)
  \/ WorkerNext({"w1"}, MaxFaults)

SpecChecked == Init /\ [][NextChecked]_vars

\* Submits, injected rows, the drain cycles of one worker and purges of s1.
NextPurge ==
  \/ SubmitNext(PoisonInputs, PurgeRows)
  \/ InjectNext(InjectRows, PurgeRows)
  \/ WorkerNext({"w1"}, MaxFaults)
  \/ PurgeNext({"s1"})

SpecPurge == Init /\ [][NextPurge]_vars

\* Rows put into outbox directly: a valid score_delta row and one of an
\* unknown type.
ClaimInject ==
  { [event_type |-> "score_delta", payload |-> Payload("s1", "u1", 2)],
    [event_type |-> "badge", payload |-> Payload("s1", "u1", 2)] }

\* Submits, rows put into outbox directly and the drain cycles of one
\* worker, over fewer rows than SpecPoison.
NextFrame ==
  \/ SubmitNext(PoisonInputs, FrameRows)
  \/ InjectNext(InjectRows, FrameRows)
  \/ WorkerNext({"w1"}, MaxFaults)

SpecFrame == Init /\ [][NextFrame]_vars

\* Rows put into outbox directly, the drain cycles of one worker and purges
\* of s1.
NextTerminal ==
  \/ InjectNext(ClaimInject, TerminalRows)
  \/ WorkerNext({"w1"}, MaxFaults)
  \/ PurgeNext({"s1"})

SpecTerminal == Init /\ [][NextTerminal]_vars

\* More rows than one batch takes, and the drain cycles of two workers.
NextClaim ==
  \/ InjectNext(ClaimInject, ClaimRows)
  \/ WorkerNext(Workers, MaxFaults)

SpecClaim == Init /\ [][NextClaim]_vars

\* Loss of the cache followed by the reconstruction the ledger enables: from
\* a quiescent state with every outbox row done, the index is cleared and
\* one outbox row per score_events row, with that row's (season_id, user_id,
\* delta) as payload, is inserted as the submit handler inserts it.
Replay ==
  LET dl == SortedSeq(DOMAIN score_events)
      n == Len(dl)
  IN /\ rt.replay = "no"
     /\ sub.pc = "idle"
     /\ n > 0
     /\ \A w \in Workers : wk[w].pc = "idle"
     /\ \A id \in DOMAIN outbox : outbox[id].status = "done"
     /\ sic' = [s \in Seasons |-> EmptyZ]
     /\ outbox' = [i \in DOMAIN outbox \cup {oqSeq + k : k \in 1..n} |->
                     IF i \in DOMAIN outbox THEN outbox[i]
                     ELSE LET e == score_events[dl[i - oqSeq]]
                          IN OutboxRow(e.season_id, e.user_id, e.delta)]
     /\ oqSeq' = oqSeq + n
     /\ rt' = [rt EXCEPT !.replay = "done", !.before = sic]
     /\ UNCHANGED <<score_events, dlSeq, sub, wk, pg, applied, claims, rolledBack, faults, rd>>

NextReplay ==
  \/ rt.replay = "no" /\ SubmitNext(PoisonInputs, ReplayRows)
  \/ WorkerNext({"w1"}, MaxFaults)
  \/ Replay

SpecReplay == Init /\ [][NextReplay]_vars

\* Rows put into outbox directly: a valid score_delta row and one whose
\* payload does not decode.
LoopInject ==
  { [event_type |-> "score_delta", payload |-> Payload("s1", "u1", 1)],
    [event_type |-> "score_delta", payload |-> [json |-> "array", seasonId |-> "", userId |-> "", delta |-> 0]] }

\* The worker loop of one process, its ticker and the shutdown signal.
LoopNext(workers, maxFaults) ==
  \E w \in workers :
    \/ TickerFire(w)
    \/ TickClaimBatch(w)
    \/ TickClaimNothing(w)
    \/ PipeCmdOk(w)
    \/ PipeCmdErr(w, maxFaults)
    \/ FinalizeCommit(w)
    \/ PipelineFailed(w)
    \/ Abort(w, maxFaults)
    \/ CancelledAbort(w)
    \/ LoopReturn(w)
    \/ LoopExit(w)

NextLoop ==
  \/ InjectNext(LoopInject, LoopRows)
  \/ LoopNext({"w1"}, MaxFaults)
  \/ Signal

SpecLoop == Init /\ [][NextLoop]_vars

\* The users of the read requests and the range parameters given.
ReadUsers == {"u1", "u2", "u3"}
RangeInputs == {<<FALSE, 0>>, <<TRUE, 0 - 1>>} \cup {<<TRUE, r>> : r \in 0..MaxRange}

\* The index of season s1 holds any entries of the users with scores that
\* submits of these users have accumulated; nothing else has happened yet.
InitRead ==
  /\ score_events = <<>>
  /\ outbox = <<>>
  /\ dlSeq = 0
  /\ oqSeq = 0
  /\ \E us \in SUBSET ReadUsers : \E z \in [us -> 1..MaxScore] :
        sic = [s \in Seasons |-> IF s = "s1" THEN z ELSE EmptyZ]
  /\ sub = IdleSub
  /\ wk = [w \in Workers |-> IdleWk]
  /\ pg = IdlePg
  /\ applied = [i \in Ids |-> 0]
  /\ claims = [i \in Ids |-> 0]
  /\ rolledBack = [dl |-> {}, oq |-> {}]
  /\ faults = 0
  /\ rd = IdleRd
  /\ rt = InitRt

ReadNext(users, ranges) ==
  \/ \E u \in users \cup {""} : RankBegin("s1", u)
  \/ \E u \in users \cup {""} : \E g \in ranges : AroundBegin("s1", u, g[1], g[2])
  \/ ReadZRevRank
  \/ RankZScore
  \/ AroundZRange
  \/ ReadRedisErr
  \/ ReadReturn

NextRead ==
  \/ ReadNext(ReadUsers, RangeInputs)
  \/ PurgeNext({"s1"})

SpecRead == InitRead /\ [][NextRead]_vars

\* Valid score_delta rows of two users of s1, put into outbox directly.
AroundInject ==
  { [event_type |-> "score_delta", payload |-> Payload("s1", "u1", 1)],
    [event_type |-> "score_delta", payload |-> Payload("s1", "u2", 2)] }

\* Read requests next to the drain cycles of one worker and purges of s1.
NextAround ==
  \/ ReadNext({"u1", "u2"}, {<<TRUE, 0>>, <<TRUE, 1>>})
  \/ InjectNext(AroundInject, AroundRows)
  \/ WorkerNext({"w1"}, MaxFaults)
  \/ PurgeNext({"s1"})

SpecAround == Init /\ [][NextAround]_vars

\* Rows put into outbox directly: valid score_delta rows of one user, one
\* delta at the limit of exact integers.
CommuteInject ==
  { [event_type |-> "score_delta", payload |-> Payload("s1", "u1", Pow2(FloatBits))],
    [event_type |-> "score_delta", payload |-> Payload("s1", "u1", 1)] }

NextCommute ==
  \/ InjectNext(CommuteInject, CommuteRows)
  \/ WorkerNext(Workers, MaxFaults)

SpecCommute == Init /\ [][NextCommute]_vars

\* ============================================================== properties
\* The score the index holds for (season, user); 0 when the user has no entry.
Score(s, u) == IF u \in DOMAIN sic[s] THEN sic[s][u] ELSE 0

Pairs == {<<in[1], in[2]>> : in \in SubmitInputs}

\* Sum of the deltas of the ledger rows of (s, u).
LedgerSum(s, u) ==
  SumOver([id \in DOMAIN score_events |-> score_events[id].delta],
          {id \in DOMAIN score_events : score_events[id].season_id = s /\ score_events[id].user_id = u})

\* Sum of the payload deltas of the done outbox rows of (s, u).
DoneSum(s, u) ==
  SumOver([id \in DOMAIN outbox |-> outbox[id].payload.delta],
          {id \in DOMAIN outbox : /\ outbox[id].status = "done"
                                  /\ outbox[id].payload.seasonId = s
                                  /\ outbox[id].payload.userId = u})

\* No pending and no processing row, committed or inside an open cycle.
Quiescent ==
  /\ \A id \in DOMAIN outbox : outbox[id].status \in {"done", "failed"}
  /\ \A w \in Workers : wk[w].pc = "idle"

\* Worker w's cycle ends in this step without committing.
EndsWithoutCommit(w) ==
  /\ wk[w].pc = "pipe" /\ wk'[w].pc = "idle"
  /\ (ExecErr(wk[w].res) \/ faults' # faults)

\* Worker w's cycle commits in this step.
Commits(w) ==
  /\ wk[w].pc = "pipe" /\ wk'[w].pc = "idle"
  /\ ~ExecErr(wk[w].res) /\ faults' = faults

\* C1: a submit transaction that fails at any point leaves neither its ledger
\* row nor its outbox row in any committed state, then or later; and the
\* committed tables never hold a ledger row without its outbox row or the
\* reverse (per (season, user, delta): as many ledger rows as outbox rows).
C1_SubmitAtomic ==
  /\ sub.pc \in {"tx", "dl", "oq", "failed"} =>
        sub.dl \notin DOMAIN score_events /\ sub.oq \notin DOMAIN outbox
  /\ rolledBack.dl \cap DOMAIN score_events = {}
  /\ rolledBack.oq \cap DOMAIN outbox = {}
  /\ \A in \in SubmitInputs :
        Cardinality({id \in DOMAIN score_events : score_events[id] = ScoreEventRow(in[1], in[2], in[3])})
        = Cardinality({id \in DOMAIN outbox : outbox[id].payload = Payload(in[1], in[2], in[3])})

\* A submit has failed between the ledger insert and the outbox insert.
C1_Witness == sub.pc = "failed" /\ sub.dl # 0 /\ sub.oq = 0

\* C2: the step that acknowledges a submit (202) commits exactly one ledger
\* row and exactly one outbox row, both carrying the request's (season, user,
\* delta); the outbox row has event type score_delta, status pending and
\* attempts 0; no other row changes.
C2_AcceptedSubmit ==
  [][ (sub.pc # "acked" /\ sub'.pc = "acked") =>
        /\ DOMAIN score_events' = DOMAIN score_events \cup {sub.dl}
        /\ sub.dl \notin DOMAIN score_events
        /\ score_events'[sub.dl] = [season_id |-> sub.seasonID, user_id |-> sub.userID, delta |-> sub.delta]
        /\ \A id \in DOMAIN score_events : score_events'[id] = score_events[id]
        /\ DOMAIN outbox' = DOMAIN outbox \cup {sub.oq}
        /\ sub.oq \notin DOMAIN outbox
        /\ ~UnmarshalErr(outbox'[sub.oq].payload)
        /\ Unmarshal(outbox'[sub.oq].payload) = [SeasonID |-> sub.seasonID, UserID |-> sub.userID, Delta |-> sub.delta]
        /\ outbox'[sub.oq].event_type = "score_delta"
        /\ outbox'[sub.oq].status = "pending"
        /\ outbox'[sub.oq].attempts = 0
        /\ \A id \in DOMAIN outbox : outbox'[id] = outbox[id]
    ]_vars

\* A submit has just been acknowledged.
C2_Witness ==
  /\ sub.pc = "acked"
  /\ sub.dl \in DOMAIN score_events /\ sub.oq \in DOMAIN outbox
  /\ outbox[sub.oq].status = "pending"

\* C3: no outbox row is held (locked and set to processing) by the open
\* transactions of two different workers; the sets of ids held by open
\* cycles are pairwise disjoint.
C3_ClaimsDisjoint ==
  \A v, w \in Workers :
    v # w => LockedByWorker(v) \cap LockedByWorker(w) = {}

\* Two workers hold claims at the same time.
C3_Witness ==
  \A w \in Workers :
    /\ LockedByWorker(w) # {}
    /\ \A id \in LockedByWorker(w) : wk[w].writes[id].status = "processing"

\* C4: as long as every cycle has committed (no cycle failed or was aborted),
\* each row's increment has been executed at most once, exactly once for a
\* done row, and at quiescence every (season, user) score equals the sum of
\* the submitted deltas.
C4_NoDoubleApply ==
  faults = 0 =>
    /\ \A id \in Ids : applied[id] <= 1
    /\ \A id \in DOMAIN outbox : outbox[id].status = "done" => applied[id] = 1
    /\ Quiescent => \A pr \in Pairs : Score(pr[1], pr[2]) = LedgerSum(pr[1], pr[2])

\* Every cycle committed, all rows are done, one user got two deltas.
C4_Witness ==
  /\ faults = 0 /\ Quiescent /\ sub.pc = "idle"
  /\ Cardinality(DOMAIN outbox) = MaxRows
  /\ \E pr \in Pairs :
       Cardinality({id \in DOMAIN outbox : outbox[id].payload.seasonId = pr[1] /\ outbox[id].payload.userId = pr[2]}) >= 2

\* C5 (as claimed): in every quiescent state, also after cycles that aborted
\* or whose worker was killed, the score of each (season, user) equals the
\* sum of delta over the done outbox rows of that pair.
C5_QuiescentConsistency ==
  Quiescent => \A pr \in Pairs : Score(pr[1], pr[2]) = DoneSum(pr[1], pr[2])

\* C7: when a cycle ends without committing, every row it claimed is in the
\* committed table as it was before the cycle (status pending, attempts and
\* last_error unchanged), is unlocked, and the claim query of any idle worker
\* can select it again.
C7_AbortReverts ==
  [][ \A w \in Workers : EndsWithoutCommit(w) =>
        \A id \in Range(wk[w].items) :
          /\ id \in DOMAIN outbox'
          /\ outbox'[id] = outbox[id]
          /\ outbox'[id].status = "pending"
          /\ outbox'[id].attempts = wk[w].writes[id].attempts - 1
          /\ \A v \in Workers : id \notin LockedByWorker(v)'
    ]_vars

\* A row that a cycle claimed is pending and unlocked again.
C7_Witness ==
  \E id \in DOMAIN outbox :
    /\ claims[id] >= 1
    /\ outbox[id].status = "pending"
    /\ outbox[id].attempts = 0
    /\ \A w \in Workers : id \notin LockedByWorker(w)

\* C9 (as claimed): when some but not all increments of a batch report an
\* error, the cycle commits: a row whose increment failed is pending with
\* last_error set, every other decodable row of the batch is done.
C9_PerItemFailure ==
  [][ \A w \in Workers :
        ( /\ wk[w].pc = "pipe" /\ wk'[w].pc = "idle"
          /\ Len(wk[w].res) = Len(wk[w].cmds)
          /\ faults' = faults
          /\ \E i \in 1..Len(wk[w].res) : wk[w].res[i] = "err"
          /\ \E i \in 1..Len(wk[w].res) : wk[w].res[i] = "ok" )
        => \A i \in 1..Len(wk[w].cmds) :
             /\ wk[w].res[i] = "err" =>
                   outbox'[wk[w].cmds[i]].status = "pending" /\ outbox'[wk[w].cmds[i]].last_error # NULL
             /\ wk[w].res[i] = "ok" => outbox'[wk[w].cmds[i]].status = "done"
    ]_vars

\* C6: under fair scheduling of the drain cycles, with faults that stop,
\* every committed outbox row eventually is done with its increment executed
\* by the cache, or failed with a last_error.
C6_EventualDelivery ==
  \A id \in 1..LiveRows :
    (id \in DOMAIN outbox) ~>
      ( /\ id \in DOMAIN outbox
        /\ \/ outbox[id].status = "done" /\ applied[id] >= 1
           \/ outbox[id].status = "failed" /\ outbox[id].last_error # NULL )

\* A row that went through a cycle that did not commit is done.
C6_Witness ==
  \E id \in DOMAIN outbox : outbox[id].status = "done" /\ claims[id] >= 2 /\ applied[id] >= 1

C10_CommitIsolatesPoison ==
  [][ \A w \in Workers : Commits(w) =>
        \A id \in Range(wk[w].items) :
          /\ UnmarshalErr(outbox[id].payload) =>
                outbox'[id].status = "failed" /\ outbox'[id].last_error = "json error"
          /\ ~Poison(id) => outbox'[id].status = "done"
    ]_vars

C10_NoIncrementForPoison ==
  /\ \A id \in DOMAIN outbox : UnmarshalErr(outbox[id].payload) => applied[id] = 0
  /\ (faults = 0 /\ Quiescent) =>
        \A pr \in Pairs :
          Score(pr[1], pr[2]) =
            SumOver([id \in DOMAIN outbox |-> outbox[id].payload.delta],
                    {id \in DOMAIN outbox : /\ ~Poison(id)
                                            /\ outbox[id].payload.seasonId = pr[1]
                                            /\ outbox[id].payload.userId = pr[2]})

C10_PoisonIsolation == []C10_NoIncrementForPoison /\ C10_CommitIsolatesPoison

\* Rows 1 and 3 are valid and done, row 2 between them does not decode and is
\* failed; one cycle claimed all three.
C10_Witness ==
  /\ DOMAIN outbox = {1, 2, 3}
  /\ UnmarshalErr(outbox[2].payload) /\ outbox[2].status = "failed"
  /\ ~Poison(1) /\ outbox[1].status = "done"
  /\ ~Poison(3) /\ outbox[3].status = "done"
  /\ faults = 0 /\ \A id \in {1, 2, 3} : claims[id] = 1
  /\ \A w \in Workers : wk[w].pc = "idle"

\* C11 (as claimed): a committed outbox row whose event type is not
\* score_delta is never done and no increment is executed for it; once a
\* cycle that claimed it has committed it is failed, with last_error naming
\* the unknown type (the payload decodes).
C11_UnknownTypeFails ==
  \A id \in DOMAIN outbox :
    (outbox[id].event_type # "score_delta" /\ ~UnmarshalErr(outbox[id].payload)) =>
      /\ outbox[id].status # "done"
      /\ applied[id] = 0
      /\ outbox[id].attempts >= 1 => outbox[id].status = "failed"
      /\ outbox[id].status = "failed" => outbox[id].last_error = "unknown event_type"

\* C12: once an outbox row is committed as failed or done, no step claims
\* or locks it, changes it, or executes an increment for it; the only step
\* that removes it is the commit of a purge of its season.
C12_TerminalStates ==
  [][ \A id \in DOMAIN outbox :
        outbox[id].status \in {"done", "failed"} =>
          /\ claims'[id] = claims[id]
          /\ applied'[id] = applied[id]
          /\ \A w \in Workers : id \notin LockedByWorker(w)'
          /\ id \in DOMAIN outbox' => outbox'[id] = outbox[id]
          /\ id \notin DOMAIN outbox' =>
                /\ pg.pc = "oq" /\ pg'.pc = "done"
                /\ PayloadSeason(outbox[id].payload) = pg.sid
    ]_vars

\* A failed row is committed, claimed once, while a later cycle is open and
\* has executed the increment of another row.
C12_Witness ==
  /\ \E id \in DOMAIN outbox : outbox[id].status = "failed" /\ claims[id] = 1 /\ applied[id] = 0
  /\ wk["w1"].pc = "pipe" /\ wk["w1"].res = <<"ok">>

\* C13 (as claimed): for every committed outbox row that no open cycle holds,
\* attempts equals the number of times a cycle has claimed the row, the
\* claims of cycles that ended without commit included.
C13_AttemptsCountClaims ==
  \A id \in DOMAIN outbox :
    (\A w \in Workers : id \notin LockedByWorker(w)) => outbox[id].attempts = claims[id]

\* C14: a cycle that commits leaves every row it claimed with attempts
\* exactly one more than before the cycle, whatever status it gives the row.
C14_AttemptsOncePerCycle ==
  [][ \A w \in Workers : Commits(w) =>
        \A id \in Range(wk[w].items) :
          /\ id \in DOMAIN outbox'
          /\ outbox'[id].attempts = outbox[id].attempts + 1
    ]_vars

\* One committed cycle has left a failed row and a done row, each with one
\* attempt.
C14_Witness ==
  /\ \E id \in DOMAIN outbox : outbox[id].status = "failed" /\ outbox[id].attempts = 1
  /\ \E id \in DOMAIN outbox : outbox[id].status = "done" /\ outbox[id].attempts = 1 /\ claims[id] = 1

\* The rows worker w's claim query may select: pending and not locked by
\* another transaction.
Eligible(w) == {id \in DOMAIN outbox : outbox[id].status = "pending" /\ id \notin LockedByOthers(w)}

\* C15: the rows a cycle claims are at most batchSize, all pending and
\* unlocked at the claim, in ascending id order, and the lowest such ids
\* (everything eligible when fewer than batchSize); with no eligible row the
\* worker's cycle ends with nothing claimed and nothing changed.
C15_ClaimSelection ==
  [][ \A w \in Workers :
        /\ (wk[w].pc = "idle" /\ wk'[w].pc # "idle") =>
              LET items == wk'[w].items IN
                /\ Len(items) >= 1 /\ Len(items) <= batchSize
                /\ Range(items) \subseteq Eligible(w)
                /\ \A i, j \in 1..Len(items) : i < j => items[i] < items[j]
                /\ \A id \in Eligible(w) \ Range(items) : \A c \in Range(items) : c < id
                /\ Len(items) < batchSize => Range(items) = Eligible(w)
                /\ outbox' = outbox
        /\ (wk[w].pc = "idle" /\ Eligible(w) = {}) => wk'[w] = wk[w]
    ]_vars

\* A cycle holds a full batch, the lowest ids, and a fourth row was left.
C15_Witness ==
  /\ \E w \in Workers : wk[w].items = <<1, 2, 3>> /\ claims[4] = 0
  /\ 4 \in DOMAIN outbox /\ outbox[4].status = "pending"

C17_LedgerOutboxPaired ==
  \A in \in PoisonInputs :
    Cardinality({id \in DOMAIN score_events : score_events[id] = ScoreEventRow(in[1], in[2], in[3])})
    = Cardinality({id \in DOMAIN outbox : /\ outbox[id].event_type = "score_delta"
                                           /\ outbox[id].payload = Payload(in[1], in[2], in[3])})

\* No submit was in flight when the last purge began and no row has been
\* inserted since: no submit was accepted after the purge began.
NoSubmitSincePurgeBegan ==
  /\ pg.sub0 \in {"idle", "acked", "failed"}
  /\ dlSeq = pg.dl0 /\ oqSeq = pg.oq0

\* C18 (as claimed): after a purge of season s has answered 200, with no
\* submit accepted since it began, the index of s is empty, no ledger row and
\* no outbox row of s exists, and rank answers 404 for every user.
C18_PurgeResult ==
  (pg.pc = "done" /\ NoSubmitSincePurgeBegan) =>
    /\ sic[pg.sid] = EmptyZ
    /\ \A id \in DOMAIN score_events : score_events[id].season_id # pg.sid
    /\ \A id \in DOMAIN outbox : PayloadSeason(outbox[id].payload) # pg.sid
    /\ \A in \in SubmitInputs : RankStatus(pg.sid, in[2]) = 404

\* The ledger rows and the score_delta outbox rows of season s pair up.
SeasonPaired(se, ob, s) ==
  \A in \in PoisonInputs :
    in[1] = s =>
      Cardinality({id \in DOMAIN se : se[id] = ScoreEventRow(in[1], in[2], in[3])})
      = Cardinality({id \in DOMAIN ob : /\ ob[id].event_type = "score_delta"
                                         /\ ob[id].payload = Payload(in[1], in[2], in[3])})

\* C19 (as claimed): the step that drops the index deletes no durable row;
\* a failed cache drop changes nothing; a failed purge transaction leaves
\* the index as it is and every durable row in place; rows disappear only in
\* the purge's commit, ledger rows and outbox rows of the season together,
\* never the ones without the others.
C19_PurgeOrderAtomic ==
  [][ /\ (pg.pc \notin {"tx", "dl", "oq"} /\ pg'.pc = "tx") =>
            /\ sic'[pg'.sid] = EmptyZ
            /\ score_events' = score_events /\ outbox' = outbox
      /\ (pg' # pg /\ pg'.pc = "failed" /\ pg'.at = "del") =>
            /\ sic' = sic /\ score_events' = score_events /\ outbox' = outbox
      /\ (pg.pc \in {"tx", "dl", "oq"} /\ pg'.pc = "failed") =>
            /\ sic' = sic /\ score_events' = score_events /\ outbox' = outbox
      /\ (DOMAIN score_events \ DOMAIN score_events' # {} \/ DOMAIN outbox \ DOMAIN outbox' # {}) =>
            pg.pc = "oq" /\ pg'.pc = "done"
      /\ (pg.pc = "oq" /\ pg'.pc = "done") =>
            /\ \A id \in DOMAIN score_events \ DOMAIN score_events' : score_events[id].season_id = pg.sid
            /\ \A id \in DOMAIN outbox \ DOMAIN outbox' : PayloadSeason(outbox[id].payload) = pg.sid
            /\ SeasonPaired(score_events, outbox, pg.sid) => SeasonPaired(score_events', outbox', pg.sid)
    ]_vars

\* C20: a step of the submit handler leaves the index of every season and
\* every existing ledger and outbox row as they were; the index changes only
\* in the step of a drain cycle that executes an increment.
C20_SubmitLeavesCache ==
  [][ /\ sub' # sub =>
            /\ sic' = sic
            /\ \A id \in DOMAIN score_events : id \in DOMAIN score_events' /\ score_events'[id] = score_events[id]
            /\ \A id \in DOMAIN outbox : id \in DOMAIN outbox' /\ outbox'[id] = outbox[id]
      /\ sic' # sic =>
            \E w \in Workers : wk[w].pc = "pipe" /\ Len(wk'[w].res) = Len(wk[w].res) + 1
    ]_vars

\* A submit has just been acknowledged next to a row already drained: its
\* own row is pending, no increment was executed for it, and the score is
\* that of the drained row alone.
C20_Witness ==
  /\ sub.pc = "acked" /\ sub.oq \in DOMAIN outbox
  /\ applied[sub.oq] = 0 /\ outbox[sub.oq].status = "pending"
  /\ \E id \in DOMAIN outbox :
       /\ id # sub.oq /\ outbox[id].status = "done"
       /\ outbox[id].payload = outbox[sub.oq].payload
       /\ Score(sub.seasonID, sub.userID) = outbox[id].payload.delta

\* C21 (as claimed): a submit with an empty season, an empty user or delta 0
\* is rejected and inserts nothing, so no ledger row and no decodable
\* score_delta outbox row ever has delta 0 or an empty season or user.
C21_InvalidSubmitRejected ==
  /\ (sub.pc # "idle" /\ (sub.seasonID = "" \/ sub.userID = "" \/ sub.delta = 0)) =>
        sub.pc = "rejected" /\ sub.dl = 0 /\ sub.oq = 0
  /\ \A id \in DOMAIN score_events :
        score_events[id].season_id # "" /\ score_events[id].user_id # "" /\ score_events[id].delta # 0
  /\ \A id \in DOMAIN outbox :
        (outbox[id].event_type = "score_delta" /\ ~UnmarshalErr(outbox[id].payload)) =>
          LET p == Unmarshal(outbox[id].payload) IN p.SeasonID # "" /\ p.UserID # "" /\ p.Delta # 0

RECURSIVE ApplyRows(_, _)
\* The index after the increments of the outbox rows ids (a sequence) are
\* applied to the index c in that order.
ApplyRows(c, ids) ==
  IF ids = <<>> THEN c
  ELSE LET p == Unmarshal(outbox[ids[1]].payload)
       IN ApplyRows([c EXCEPT ![p.SeasonID] = ZIncrBy(@, p.UserID, Float64(p.Delta))], SubSeq(ids, 2, Len(ids)))

\* C22 (as claimed): when every row has been applied exactly once, in
\* whatever order the batches and workers did it, the index is the one that
\* applying the same rows in ascending id order to the empty index gives.
C22_Commutative ==
  (faults = 0 /\ Quiescent /\ \A id \in DOMAIN outbox : outbox[id].status = "done" /\ applied[id] = 1) =>
    sic = ApplyRows([s \in Seasons |-> EmptyZ], SortedSeq(DOMAIN outbox))

\* C23 (as claimed): once the index was cleared, every score_events row fed
\* through the outbox again and the outbox drained, each (season, user) has
\* the score it had before, which is the sum of its score_events deltas.
C23_ReplayReconstructs ==
  (rt.replay = "done" /\ Quiescent /\ \A id \in DOMAIN outbox : outbox[id].status = "done") =>
    \A pr \in Pairs :
      /\ Score(pr[1], pr[2]) = LedgerSum(pr[1], pr[2])
      /\ Score(pr[1], pr[2]) = (IF pr[2] \in DOMAIN rt.before[pr[1]] THEN rt.before[pr[1]][pr[2]] ELSE 0)

\* The entries of z ordered before member: a higher score, or the same score
\* and a later member.
Before(z, member) ==
  {m \in DOMAIN z : z[m] > z[member] \/ (z[m] = z[member] /\ MemberOrd(m) > MemberOrd(member))}

\* C24: a rank request is answered 404 exactly when the user has no entry in
\* the index ZRevRank read (or the entry was purged before ZScore); an answer
\* 200 carries the user's score and a rank of 1 plus the number of entries
\* ordered before the user, which is 1 for the user with the highest score.
C24_Rank ==
  (rd.op = "rank" /\ rd.pc = "responded") =>
    /\ rd.userID # "" => rd.status \in {200, 404, 500}
    /\ (rd.userID # "" /\ rd.userID \notin DOMAIN rd.z) => rd.status \in {404, 500}
    /\ rd.status = 404 => (rd.userID \notin DOMAIN rd.z \/ rd.userID \notin DOMAIN sic[rd.seasonID])
    /\ rd.status = 200 =>
         /\ rd.userID \in DOMAIN rd.z
         /\ rd.rank = 1 + Cardinality(Before(rd.z, rd.userID))
         /\ rd.rank >= 1
         /\ (\A m \in DOMAIN rd.z \ {rd.userID} : rd.z[m] < rd.z[rd.userID]) => rd.rank = 1
         /\ rd.score = rd.z[rd.userID]

C24_Witness ==
  /\ rd.op = "rank" /\ rd.pc = "responded" /\ rd.status = 200
  /\ rd.rank = 2
  /\ \E m \in DOMAIN rd.z \ {rd.userID} : rd.z[m] = rd.z[rd.userID]
  /\ Cardinality(DOMAIN rd.z) = 3

\* C25: on an index that did not change during the request, around answers
\* at most 2 * range + 1 items with consecutive ranks from
\* max(1, rank(user) - range) to at most rank(user) + range, each item with
\* the rank and score its user has in the index, in descending score order;
\* no rank is below 1 and the window of the top-ranked user starts at rank 1.
C25_Around ==
  (rd.op = "around" /\ rd.pc = "responded" /\ rd.status = 200 /\ sic[rd.seasonID] = rd.z) =>
    LET myRank == 1 + Cardinality(Before(rd.z, rd.userID))
        n == Len(rd.items)
    IN /\ n >= 1 /\ n <= 2 * rd.rng + 1
       /\ rd.items[1].Rank = (IF myRank - rd.rng < 1 THEN 1 ELSE myRank - rd.rng)
       /\ rd.items[n].Rank <= myRank + rd.rng
       /\ rd.items[n].Rank = (IF myRank + rd.rng > Cardinality(DOMAIN rd.z) THEN Cardinality(DOMAIN rd.z) ELSE myRank + rd.rng)
       /\ \A i \in 1..n :
            /\ rd.items[i].Rank = rd.items[1].Rank + (i - 1)
            /\ rd.items[i].Rank >= 1
            /\ rd.items[i].UserID \in DOMAIN rd.z
            /\ rd.items[i].Rank = 1 + Cardinality(Before(rd.z, rd.items[i].UserID))
            /\ rd.items[i].Score = rd.z[rd.items[i].UserID]
       /\ \A i \in 1..(n - 1) : rd.items[i].Score >= rd.items[i + 1].Score
       /\ \E i \in 1..n : rd.items[i].UserID = rd.userID
       /\ myRank = 1 => rd.items[1].Rank = 1

C25_Witness ==
  /\ rd.op = "around" /\ rd.pc = "responded" /\ rd.status = 200 /\ sic[rd.seasonID] = rd.z
  /\ rd.rng = 1
  /\ Cardinality(Before(rd.z, rd.userID)) = 0
  /\ Cardinality(DOMAIN rd.z) = 3
  /\ Len(rd.items) = 2

\* C26: a worker's cycle starts only while its loop is at the select, that
\* is after the previous call has returned, and takes the one tick the
\* ticker holds; the ticker never holds more than one tick, and a worker
\* starts at most one cycle without its ticker firing again.
C26_CyclesDoNotOverlap ==
  [][\A w \in Workers :
       /\ rt'.tick[w] <= 1
       /\ rt'.burst[w] <= 1
       /\ wk'[w].pc # "idle" => rt'.loop[w] = "cycle"
       /\ rt'.burst[w] > rt.burst[w] =>
            /\ rt.loop[w] = "select" /\ wk[w].pc = "idle"
            /\ rt.tick[w] = 1 /\ rt'.tick[w] = 0]_vars

C26_Witness ==
  /\ rt.loop["w1"] = "cycle" /\ wk["w1"].pc = "pipe"
  /\ rt.tick["w1"] = 1 /\ rt.burst["w1"] = 0
  /\ \E id \in DOMAIN outbox : outbox[id].status = "done"

\* C27: no committed row is ever in processing; once the context is
\* cancelled no step changes a committed outbox row, so no cycle commits any
\* more; a cycle that ends then leaves every row it claimed pending, and a
\* cycle that ends at any time either commits all its updates or none.
C27_Shutdown ==
  [][/\ \A id \in DOMAIN outbox' : outbox'[id].status \in {"pending", "done", "failed"}
     /\ (rt.ctx = "cancelled") => \A id \in DOMAIN outbox : outbox'[id] = outbox[id]
     /\ \A w \in Workers :
          (wk[w].pc = "pipe" /\ wk'[w].pc = "idle") =>
            /\ \/ outbox' = outbox
               \/ outbox' = ApplyWrites(outbox, Finalize(wk[w].writes, wk[w].cmds, wk[w].res))
            /\ (rt.ctx = "cancelled") => \A id \in Range(wk[w].items) : outbox'[id].status = "pending"]_vars

C27_Witness ==
  /\ rt.ctx = "cancelled" /\ rt.loop["w1"] = "exited" /\ wk["w1"].pc = "idle"
  /\ faults = 0
  /\ \E id \in DOMAIN outbox :
       outbox[id].status = "pending" /\ outbox[id].attempts = 0 /\ claims[id] = 1 /\ applied[id] = 1

\* C28: no committed outbox row is ever in processing: a cycle that commits
\* leaves each row it claimed done, pending or failed, a cycle that ends
\* without commit leaves it pending, and every row another transaction can
\* read is pending, done or failed.
C28_ProcessingNeverCommitted ==
  [][ /\ \A id \in DOMAIN outbox' : outbox'[id].status \in {"pending", "done", "failed"}
      /\ \A w \in Workers :
           /\ Commits(w) =>
                \A id \in Range(wk[w].items) : outbox'[id].status \in {"done", "pending", "failed"}
           /\ EndsWithoutCommit(w) =>
                \A id \in Range(wk[w].items) : outbox'[id].status = "pending"
    ]_vars

\* A cycle holds a row it has set to processing while the committed row is
\* pending, next to a failed row an earlier cycle committed.
C28_Witness ==
  /\ wk["w1"].pc = "pipe"
  /\ \E id \in Range(wk["w1"].items) :
       wk["w1"].writes[id].status = "processing" /\ outbox[id].status = "pending"
  /\ \E id \in DOMAIN outbox : outbox[id].status = "failed" /\ claims[id] = 1

\* C29: a step of a drain cycle, commit and rollback included, leaves the
\* ledger and both sequences as they are, creates and deletes no outbox row,
\* leaves event_type and payload of every outbox row unchanged, and changes
\* status, attempts, last_error and processed_at only of rows the cycle
\* claimed.
C29_WorkerFrame ==
  [][ wk' # wk =>
        /\ score_events' = score_events
        /\ dlSeq' = dlSeq /\ oqSeq' = oqSeq
        /\ DOMAIN outbox' = DOMAIN outbox
        /\ \A id \in DOMAIN outbox :
             /\ outbox'[id].event_type = outbox[id].event_type
             /\ outbox'[id].payload = outbox[id].payload
             /\ outbox'[id] # outbox[id] => \E w \in Workers : wk'[w] # wk[w] /\ id \in Range(wk[w].items)
    ]_vars

\* A committed cycle has left its row done while a ledger row exists and a
\* row inserted during the cycle, which it did not claim, is untouched.
C29_Witness ==
  /\ wk["w1"].pc = "idle"
  /\ DOMAIN score_events # {}
  /\ \E id \in DOMAIN outbox : outbox[id].status = "done" /\ claims[id] = 1
  /\ \E id \in DOMAIN outbox : outbox[id].status = "pending" /\ claims[id] = 0 /\ outbox[id].attempts = 0

\* C30 (as claimed): every entry of the index has a committed ledger row of
\* its (season, user), for any interleaving of submits, drain cycles and
\* purges (rows put into outbox directly aside).
C30_NoPhantomEntries ==
  (\A id \in DOMAIN outbox : outbox[id].event_type = "score_delta" /\ ~UnmarshalErr(outbox[id].payload)) =>
    \A s \in Seasons : \A u \in DOMAIN sic[s] :
      \E id \in DOMAIN score_events : score_events[id].season_id = s /\ score_events[id].user_id = u

\* C31 (as claimed): whatever increments and purges run between the two
\* cache operations of an around request, an answer 200 has an item of the
\* requested user, and the rank of each item is the rank its user has in
\* the index the items were read from.
C31_AroundInterleaved ==
  (rd.op = "around" /\ rd.pc = "responded" /\ rd.status = 200) =>
    /\ \E i \in 1..Len(rd.items) : rd.items[i].UserID = rd.userID
    /\ \A i \in 1..Len(rd.items) :
         /\ rd.items[i].UserID \in DOMAIN rd.zr
         /\ rd.items[i].Rank = 1 + Cardinality(Before(rd.zr, rd.items[i].UserID))

====
